---- MODULE Spec2Model ----
(***************************************************************************)
(* ChatUI of src/src/webllm.ts: the promise chain that serializes generate *)
(* and reset tasks, the model load started by the download control, the    *)
(* sliding chat history and the message log.                               *)
(*                                                                         *)
(* One step of the model is one turn of the browser's event loop: a user   *)
(* event, or the settling of one awaited engine call, followed by all the  *)
(* synchronous code and promise reactions that run before the next event.  *)
(* Every engine call is an external collaborator: it may take arbitrarily  *)
(* long, and it may fulfil or reject.  appendMessage, appendUserMessage and *)
(* updateLastMessage are never awaited by their callers: what they do after *)
(* their await of marked.parse is a rendering that is pending while the     *)
(* caller goes on, and the pending renderings settle in the order they were *)
(* started, in the same turn of the event loop.                             *)
(***************************************************************************)
EXTENDS Integers, Sequences, FiniteSets, TLC

VARIABLES
  chatLoaded,         \* ChatUI.chatLoaded
  requestInProgress,  \* ChatUI.requestInProgress
  chatHistory,        \* ChatUI.chatHistory: sequence of [role, content]
  uiChat,             \* the message log: the msg blocks of #chat-box, in order
  uiChatInput,        \* value of the #chat-user-input field
  inputDisabled,      \* "disabled" attribute of input, send and reset controls
  downloadDisabled,   \* "disabled" attribute of the download control
  downloadHidden,     \* "hidden" class of the download control (showProgress)
  progressWidth,      \* style.width of the progress bar
  chatRequestChain,   \* the promises made by pushTask and not yet settled,
                      \* oldest first; the last one is this.chatRequestChain
  chainBase,          \* state of the promise before chatRequestChain[1]
  nPushed,            \* number of calls of pushTask so far
  loads,              \* the calls of initChatUI that have not returned
  lastProbe,          \* history variable: locals of the last load that reached
                      \* the end of the device probe
  skipped,            \* history variable: tasks rejected without being called
  placeholder,        \* "placeholder" attribute of the input field
  uiChatInfoLabel,    \* innerHTML of the usage label
  failures,           \* number of engine calls that have rejected so far
  turnsSinceReset,    \* history variable: every turn pushed since the last clear
  startOrder,         \* history variable: chain positions in the order they began
  lastReset,          \* history variable: what the last onReset saw and did
  lastEmpty,          \* history variable: what the last generate task that
                      \* found the input field empty saw and did
  missedUpdate,       \* history variable: a generate task has called
                      \* updateLastMessage when the last "secondary" block
                      \* was not its own, or when there was none
  lastCall,           \* history variable: the last direct call of
                      \* updateLastMessage and the log it was applied to
  budget              \* the calls of pushTask and the failing engine calls
                      \* that the run explores; it never changes

vars == <<chatLoaded, requestInProgress, chatHistory, uiChat, uiChatInput,
          inputDisabled, downloadDisabled, downloadHidden, progressWidth,
          chatRequestChain, chainBase, nPushed, loads, lastProbe, skipped,
          placeholder, uiChatInfoLabel, failures, turnsSinceReset, startOrder,
          lastReset, lastEmpty, missedUpdate, lastCall, budget>>

---------------------------------------------------------------------------
(* Bounds of the model *)

MaxTasks == 3      \* calls of pushTask in a run
MaxFailures == 2   \* engine calls that reject in a run
\* a longer queue with fewer failing calls
DeepTasks == 4
DeepFailures == 1
\* updateLastMessage on its own: blocks of the log it starts from, and calls
MaxLog == 2
MaxCalls == 2

(* Inputs *)
Prompts == {"hi"}
\* the chunks of a completion stream, in order: a stream yields a prefix of
\* them and then ends or throws
Chunks == << [delta |-> "x", usage |-> FALSE], [delta |-> "y", usage |-> TRUE] >>
\* what engine.getMessage returns: it need not be the concatenation of the
\* deltas (the comment at line 391)
FinalMessages == {"xyz"}
ProgressTexts == {"Fetching 50%"}
\* device probe results: the full grid, and the part of it used when the load
\* runs beside the chat tasks
ProbeSizes == {0, 134217727, 134217728, 134217729, 1073741824}
Vendors == {"", "qualcomm", "arm", "nvidia", "Qualcomm"}
FewProbeSizes == {134217729}
FewVendors == {"nvidia"}
ErrText == "Error"
\* logs and arguments for updateLastMessage on its own
LogKinds == {"info", "secondary"}
LogHtml == {"", "<p>x</p>"}
Logs == UNION {[1..n -> [kind : LogKinds, html : LogHtml]] : n \in 0..MaxLog}
UpdateKinds == {"info", "secondary", "warning"}
UpdateTexts == {"", "x", "y"}

---------------------------------------------------------------------------
(* The state as one record, so that a handler is a function of states *)

Cur ==
  [chatLoaded |-> chatLoaded, requestInProgress |-> requestInProgress,
   chatHistory |-> chatHistory, uiChat |-> uiChat, uiChatInput |-> uiChatInput,
   inputDisabled |-> inputDisabled, downloadDisabled |-> downloadDisabled,
   downloadHidden |-> downloadHidden, progressWidth |-> progressWidth,
   chatRequestChain |-> chatRequestChain, chainBase |-> chainBase,
   nPushed |-> nPushed, loads |-> loads, lastProbe |-> lastProbe,
   skipped |-> skipped,
   placeholder |-> placeholder, uiChatInfoLabel |-> uiChatInfoLabel,
   failures |-> failures, turnsSinceReset |-> turnsSinceReset,
   startOrder |-> startOrder,
   lastReset |-> lastReset, lastEmpty |-> lastEmpty,
   missedUpdate |-> missedUpdate, lastCall |-> lastCall, budget |-> budget,
   pending |-> <<>>]   \* the renderings started in this turn and not settled

---------------------------------------------------------------------------
(* Message log *)

\* DOMPurify.sanitize(await marked.parse(text)): the empty text renders to
\* nothing, any other text to a paragraph.
Render(text) == IF text = "" THEN "" ELSE "<p>" \o text \o "</p>"

\* What a call does after its await of marked.parse.  op "append" inserts a
\* new block of the kind; "fill" inserts the text into the block at position
\* at; "update" writes the block at position at.  task is the generate task
\* whose placeholder the block is, 0 for any other block.
Rendering(op, kind, at, parsed, keepText) ==
  [op |-> op, kind |-> kind, at |-> at, parsed |-> parsed,
   keepText |-> keepText, task |-> 0]

\* a call whose block never reaches the log
appendMessageNever(s, kind, text) == s

\* the block is inserted once marked.parse has settled
appendMessage(s, kind, text) ==
  [s EXCEPT !.pending =
     Append(@, Rendering("append", kind, 0, Render(text), FALSE))]

\* the empty block is inserted at once, its text once marked.parse has settled
appendUserMessage(s, text) ==
  [s EXCEPT !.uiChat = Append(@, [kind |-> "primary", html |-> ""]),
            !.pending =
              Append(@, Rendering("fill", "primary", Len(s.uiChat) + 1,
                                  Render(text), FALSE))]

\* getElementsByClassName(`msg ${kind}-msg`): positions of the blocks of a kind
Matches(log, kind) == {i \in 1..Len(log) : log[i].kind = kind}

LastMatch(log, kind) ==
  CHOOSE i \in Matches(log, kind) : \A j \in Matches(log, kind) : j <= i

\* the call with keepText taken as true whatever was passed
updateLastMessageKeeps(s, kind, text, keepText) ==
  IF Matches(s.uiChat, kind) = {} THEN s
  ELSE [s EXCEPT !.pending =
          Append(@, Rendering("update", kind, LastMatch(s.uiChat, kind),
                              Render(text), TRUE))]

\* The call is never awaited: when no block of the kind exists the promise it
\* returns rejects and nothing else happens.  The block to write is looked up
\* before the await of marked.parse, its content is read and written after.
updateLastMessage(s, kind, text, keepText) ==
  IF Matches(s.uiChat, kind) = {} THEN s
  ELSE [s EXCEPT !.pending =
          Append(@, Rendering("update", kind, LastMatch(s.uiChat, kind),
                              Render(text), keepText))]

\* one pending rendering settles
SettleOne(s, r) ==
  IF r.op = "append"
  THEN [s EXCEPT !.uiChat = Append(@, [kind |-> r.kind, html |-> r.parsed]),
                 !.chatRequestChain =
                   [k \in 1..Len(@) |->
                      IF @[k].id = r.task
                      THEN [@[k] EXCEPT !.placeholderAt = Len(s.uiChat) + 1]
                      ELSE @[k]]]
  ELSE IF r.at = 0 THEN s     \* the block has been removed from the log
  ELSE IF r.op = "fill"
  THEN [s EXCEPT !.uiChat[r.at].html = @ \o r.parsed]
  ELSE LET finalText == IF r.keepText THEN s.uiChat[r.at].html \o r.parsed
                        ELSE r.parsed
       IN IF s.uiChat[r.at].html = finalText THEN s
          ELSE [s EXCEPT !.uiChat[r.at].html = finalText]

\* the pending renderings settle in the opposite order, newest first
RECURSIVE SettleRendersNewestFirst(_)
SettleRendersNewestFirst(s) ==
  IF s.pending = <<>> THEN s
  ELSE LET n == Len(s.pending)
       IN SettleRendersNewestFirst(
            [SettleOne(s, s.pending[n]) EXCEPT !.pending = SubSeq(@, 1, n - 1)])

\* the pending renderings settle, oldest first
RECURSIVE SettleRenders(_)
SettleRenders(s) ==
  IF s.pending = <<>> THEN s
  ELSE SettleRenders([SettleOne(s, Head(s.pending)) EXCEPT !.pending = Tail(@)])

\* the state at the end of the turn
Commit(s) ==
  \E e \in {SettleRenders(s)} :
     /\ chatLoaded' = e.chatLoaded
     /\ requestInProgress' = e.requestInProgress
     /\ chatHistory' = e.chatHistory
     /\ uiChat' = e.uiChat
     /\ uiChatInput' = e.uiChatInput
     /\ inputDisabled' = e.inputDisabled
     /\ downloadDisabled' = e.downloadDisabled
     /\ downloadHidden' = e.downloadHidden
     /\ progressWidth' = e.progressWidth
     /\ chatRequestChain' = e.chatRequestChain
     /\ chainBase' = e.chainBase
     /\ nPushed' = e.nPushed
     /\ loads' = e.loads
     /\ lastProbe' = e.lastProbe
     /\ skipped' = e.skipped
     /\ placeholder' = e.placeholder
     /\ uiChatInfoLabel' = e.uiChatInfoLabel
     /\ failures' = e.failures
     /\ turnsSinceReset' = e.turnsSinceReset
     /\ startOrder' = e.startOrder
     /\ lastReset' = e.lastReset
     /\ lastEmpty' = e.lastEmpty
     /\ missedUpdate' = e.missedUpdate
     /\ lastCall' = e.lastCall
     /\ budget' = e.budget

showProgress(s, show) == [s EXCEPT !.downloadHidden = show]

enableChatInput(s, enable) == [s EXCEPT !.inputDisabled = ~enable]

---------------------------------------------------------------------------
(* Chat history *)

maxMessages == 4

\* a history that is never cut
SlidingWindowOff(h) == h

\* this.chatHistory.slice(-maxMessages) when the history is longer
SlidingWindow(h) ==
  IF Len(h) > maxMessages THEN SubSeq(h, Len(h) - maxMessages + 1, Len(h)) ELSE h

pushTurn(s, role, content) ==
  LET turn == [role |-> role, content |-> content]
  IN [s EXCEPT !.chatHistory = Append(@, turn),
               !.turnsSinceReset = Append(@, turn)]

clearTags == {"primary", "secondary", "warning", "error", "danger", "info"}

resetChatHistory(s) ==
  LET s1 == [s EXCEPT !.chatHistory = <<>>,
                      !.turnsSinceReset = <<>>,
                      !.uiChat = SelectSeq(@, LAMBDA m : m.kind \notin clearTags),
                      \* a rendering that has looked up a removed block
                      \* writes to a block that is no longer in the log
                      !.pending = [k \in 1..Len(@) |->
                                     IF @[k].kind \in clearTags
                                     THEN [@[k] EXCEPT !.at = 0] ELSE @[k]],
                      !.uiChatInfoLabel = ""]
  IN appendMessage(s1, "info", "Chat assistant is ready")

---------------------------------------------------------------------------------------------------------------------------------------------
(* The request chain.  A task record is the promise made by one pushTask:  *)
(* pc is "queued" before the task is called, the await the task body is at *)
(* while it runs, and "fulfilled" or "rejected" once the promise settled.  *)
(* A settled promise leaves chatRequestChain once every promise before it  *)
(* has settled; chainBase keeps the state of the last one that left.       *)

Settled(t) == t.pc \in {"fulfilled", "rejected"}

Executing(t) == t.started /\ ~Settled(t)

GenerateExecuting(chain) ==
  \E i \in 1..Len(chain) : chain[i].kind = "generate" /\ Executing(chain[i])

\* id: position in the order of the pushTask calls; interrupt: the onReset
\* that pushed it called engine.interruptGenerate(); duringGenerate: a
\* generate task body was executing when it was pushed
NewTask(id, kind, interrupt, duringGenerate) ==
  [id |-> id, kind |-> kind, pc |-> "queued", started |-> FALSE,
   curMessage |-> "", nChunks |-> 0, usage |-> FALSE,
   interrupt |-> interrupt, duringGenerate |-> duringGenerate,
   placeholderAt |-> 0,   \* position of the "thinking" block of the task
   prompt |-> "",         \* the local prompt
   messages |-> <<>>]     \* the messages of a completions.create in flight

\* this.chatRequestChain = lastEvent.then(task)
pushTask(s, kind, interrupt) ==
  [s EXCEPT !.chatRequestChain =
              Append(@, NewTask(s.nPushed + 1, kind, interrupt,
                                GenerateExecuting(s.chatRequestChain))),
            !.nPushed = @ + 1]

\* state of the promise that task i was chained to (Promise.resolve() at first)
Predecessor(s, i) == IF i = 1 THEN s.chainBase ELSE s.chatRequestChain[i - 1].pc

\* a chain that does not wait: the task is called as soon as it is pushed
ThenCallsAtOnce(s, i) == TRUE

\* then(task) calls task once the promise before it is fulfilled
ThenCalls(s, i) == Predecessor(s, i) = "fulfilled"

\* then(task) has no rejection handler: a rejection passes to the new promise
ThenRejects(s, i) == Predecessor(s, i) = "rejected"

\* asyncGenerate up to its first await
StartGenerate(s, i) ==
  LET s1 == [s EXCEPT !.requestInProgress = TRUE,
                      !.chatRequestChain[i].started = TRUE,
                      !.startOrder = Append(@, s.chatRequestChain[i].id)]
      prompt == s.uiChatInput
  IN IF prompt = ""
     THEN LET r == [s1 EXCEPT !.requestInProgress = FALSE,
                              !.chatRequestChain[i].pc = "fulfilled"]
          IN [r EXCEPT !.lastEmpty =
                [seen |-> TRUE,
                 flagBefore |-> s.requestInProgress,
                 flagAfter |-> r.requestInProgress,
                 historyKept |-> r.chatHistory = s.chatHistory,
                 logKept |-> r.uiChat = s.uiChat /\ r.pending = s.pending]]
     ELSE LET s2 == appendUserMessage(s1, prompt)
              s3 == [s2 EXCEPT !.uiChatInput = "", !.placeholder = "Generating..."]
              s3a == appendMessage(s3, "secondary", "... thinking ...")
              s4 == [s3a EXCEPT !.pending[Len(s3a.pending)].task =
                                   s.chatRequestChain[i].id]
              s5 == pushTurn(s4, "user", prompt)
              s6 == [s5 EXCEPT !.chatHistory = SlidingWindow(@)]
          IN [s6 EXCEPT !.chatRequestChain[i].prompt = prompt,
                        !.chatRequestChain[i].messages = s6.chatHistory,
                        !.chatRequestChain[i].pc = "create"]

\* the reset task up to its await of engine.resetChat
StartReset(s, i) ==
  [s EXCEPT !.chatRequestChain[i].started = TRUE,
            !.chatRequestChain[i].pc = "resetChat",
            !.startOrder = Append(@, s.chatRequestChain[i].id)]

StartTask(s, i) ==
  IF s.chatRequestChain[i].kind = "generate" THEN StartGenerate(s, i)
  ELSE StartReset(s, i)

Queued(chain) == {i \in 1..Len(chain) : chain[i].pc = "queued"}

\* the settled promises at the front of the chain leave it
RECURSIVE DropSettled(_)
DropSettled(s) ==
  IF s.chatRequestChain # <<>> /\ Settled(s.chatRequestChain[1])
  THEN DropSettled([s EXCEPT !.chainBase = s.chatRequestChain[1].pc,
                             !.chatRequestChain = Tail(@)])
  ELSE s

\* The promise reactions that run before the next event: the oldest queued
\* task is called when its predecessor is fulfilled, its promise is rejected
\* when its predecessor is rejected, and so on down the chain.
RECURSIVE RunChain(_)
RunChain(s) ==
  LET q == Queued(s.chatRequestChain)
  IN IF q = {} THEN DropSettled(s)
     ELSE LET i == CHOOSE k \in q : \A j \in q : k <= j
          IN IF ThenCalls(s, i) THEN RunChain(StartTask(s, i))
             ELSE IF ThenRejects(s, i)
                  THEN RunChain([s EXCEPT !.chatRequestChain[i].pc = "rejected",
                                          !.skipped = @ \cup {s.chatRequestChain[i].id}])
                  ELSE DropSettled(s)

\* end of asyncGenerate after the try statement; its locals go with it
FinishGenerate(s, i) ==
  [s EXCEPT !.placeholder = "Type a message...",
            !.requestInProgress = FALSE,
            !.chatRequestChain[i].pc = "fulfilled",
            !.chatRequestChain[i].curMessage = "",
            !.chatRequestChain[i].nChunks = 0,
            !.chatRequestChain[i].usage = FALSE,
            !.chatRequestChain[i].placeholderAt = 0,
            !.chatRequestChain[i].prompt = ""]

\* asyncGenerate rejects: unloadEngine threw inside the catch clause
RejectGenerate(s, i) ==
  [s EXCEPT !.chatRequestChain[i].pc = "rejected",
            !.chatRequestChain[i].curMessage = "",
            !.chatRequestChain[i].nChunks = 0,
            !.chatRequestChain[i].usage = FALSE,
            !.chatRequestChain[i].placeholderAt = 0,
            !.chatRequestChain[i].prompt = ""]

\* the catch clause of asyncGenerate up to the await in unloadEngine
CatchGenerate(s, i) ==
  LET s1 == appendMessage(s, "danger", "Generate error, " \o ErrText)
  IN [s1 EXCEPT !.chatRequestChain[i].pc = "unload"]

\* an unload that also forgets the conversation
unloadEngineClearsHistory(s) ==
  LET s1 == [s EXCEPT !.chatLoaded = FALSE, !.chatHistory = <<>>]
      s2 == showProgress(s1, FALSE)
      s3 == enableChatInput(s2, FALSE)
      s4 == [s3 EXCEPT !.downloadDisabled = FALSE]
  IN appendMessage(s4, "info",
                   "Engine unloaded. You can download models again and retry.")

\* unloadEngine after engine.unload() fulfilled
unloadEngine(s) ==
  LET s1 == [s EXCEPT !.chatLoaded = FALSE]
      s2 == showProgress(s1, FALSE)
      s3 == enableChatInput(s2, FALSE)
      s4 == [s3 EXCEPT !.downloadDisabled = FALSE]
  IN appendMessage(s4, "info",
                   "Engine unloaded. You can download models again and retry.")

---------------------------------------------------------------------------
(* Model load: initChatUI *)

androidMaxStorageBufferBindingSize == 134217728

mobileVendors == {"qualcomm", "arm"}

\* the size test with the boundary value left out
RestrictModelsBelow(gpuVendor, maxStorageBufferBindingSize) ==
  \/ (gpuVendor # "" /\ gpuVendor \in mobileVendors)
  \/ maxStorageBufferBindingSize < androidMaxStorageBufferBindingSize

\* the condition that sets restrictModels
RestrictModels(gpuVendor, maxStorageBufferBindingSize) ==
  \/ (gpuVendor # "" /\ gpuVendor \in mobileVendors)
  \/ maxStorageBufferBindingSize <= androidMaxStorageBufferBindingSize

\* report.text.match(/(\d+)%/)?.[0] on the progress reports of the model
ProgressPercentage(text) == IF text = "Fetching 50%" THEN "50%" ELSE ""

\* the locals of initChatUI as the try statement of the probe is entered
NewLoad ==
  [pc |-> "create", restrictModels |-> FALSE, probeFailed |-> FALSE,
   maxStorageBufferBindingSize |-> 0, gpuVendor |-> ""]

NoProbe == [pc |-> "none"]

\* the call i of initChatUI returns
Return(s, i) ==
  [s EXCEPT !.loads = SubSeq(@, 1, i - 1) \o SubSeq(@, i + 1, Len(@))]

\* the catch clause without the removeAttribute("disabled")
CatchLoadKeepsDisabled(s, i) ==
  LET s1 == appendMessage(s, "danger", ErrText)
      s3 == showProgress(s1, FALSE)
  IN Return([s3 EXCEPT !.requestInProgress = FALSE,
                       !.chatLoaded = FALSE], i)

\* the outer catch clause of initChatUI
CatchLoad(s, i) ==
  LET s1 == appendMessage(s, "danger", ErrText)
      s2 == [s1 EXCEPT !.downloadDisabled = FALSE]
      s3 == showProgress(s2, FALSE)
  IN Return([s3 EXCEPT !.requestInProgress = FALSE,
                       !.chatLoaded = FALSE], i)

\* initChatUI from the settling of the device probe to its end
FinishLoad(s, i, ok, size, vendor) ==
  LET s0 == IF ok
            THEN [s EXCEPT !.loads[i].maxStorageBufferBindingSize = size,
                           !.loads[i].gpuVendor = vendor]
            ELSE appendMessage([s EXCEPT !.loads[i].probeFailed = TRUE], "danger",
                               "Error reading GPU-vendor " \o ErrText)
      l == s0.loads[i]
      restrict == RestrictModels(l.gpuVendor, l.maxStorageBufferBindingSize)
      s1 == IF restrict
            THEN [updateLastMessage(s0, "info",
                    "Your device seems to have limited resources, so we restrict the selectable models.",
                    TRUE)
                  EXCEPT !.loads[i].restrictModels = TRUE]
            ELSE s0
      s2 == updateLastMessage(s1, "info", "\n\nChat assistant is ready", TRUE)
      s3 == updateLastMessage(s2, "warning",
                              "\n\nAll models loaded and engine initialized.", TRUE)
      s4 == enableChatInput(showProgress(s3, FALSE), TRUE)
  IN Return([s4 EXCEPT !.requestInProgress = FALSE,
                       !.chatLoaded = TRUE,
                       !.lastProbe = [s4.loads[i] EXCEPT !.pc = "ready"]], i)

---------------------------------------------------------------------------
(* Initial state: the object built by CreateAsync.  The "disabled"         *)
(* attribute the chat controls start with comes from the page markup:      *)
(* until models are loaded the page offers the download control only.      *)

InitialInputDisabled == TRUE

NoReset == [seen |-> FALSE]

NoEmpty == [seen |-> FALSE]

NoCall == [seen |-> FALSE, n |-> 0]

Constructed ==
  /\ chatLoaded = FALSE
  /\ requestInProgress = FALSE
  /\ chatHistory = <<>>
  /\ uiChatInput = ""
  /\ inputDisabled = InitialInputDisabled
  /\ downloadDisabled = FALSE
  /\ downloadHidden = FALSE
  /\ progressWidth = ""
  /\ chatRequestChain = <<>>
  /\ chainBase = "fulfilled"
  /\ nPushed = 0
  /\ loads = <<>>
  /\ lastProbe = NoProbe
  /\ skipped = {}
  /\ placeholder = ""
  /\ uiChatInfoLabel = ""
  /\ failures = 0
  /\ turnsSinceReset = <<>>
  /\ startOrder = <<>>
  /\ lastReset = NoReset
  /\ lastEmpty = NoEmpty
  /\ missedUpdate = FALSE
  /\ lastCall = NoCall

Init ==
  /\ Constructed
  /\ uiChat = <<>>
  /\ budget = [tasks |-> MaxTasks, failures |-> MaxFailures]

InitDeep ==
  /\ Constructed
  /\ uiChat = <<>>
  /\ budget = [tasks |-> DeepTasks, failures |-> DeepFailures]

---------------------------------------------------------------------------
(* User events *)

\* uiChatDownloadButton.onclick, up to the first await of initChatUI
DownloadClick ==
  /\ ~downloadDisabled /\ ~downloadHidden
  /\ LET s1 == [Cur EXCEPT !.downloadDisabled = TRUE]
         s2 == enableChatInput(showProgress(s1, TRUE), FALSE)
         s3 == appendMessage(s2, "warning",
                             "Creating engine and downloading models...")
     IN IF s3.chatLoaded THEN Commit(s3)
        ELSE Commit([s3 EXCEPT !.requestInProgress = TRUE,
                               !.loads = Append(@, NewLoad)])

\* the user edits the input field
TypeInput ==
  /\ ~inputDisabled
  /\ \E p \in Prompts \cup {""} :
       /\ p # uiChatInput
       /\ uiChatInput' = p
  /\ UNCHANGED <<chatLoaded, requestInProgress, chatHistory, uiChat,
                 inputDisabled, downloadDisabled, downloadHidden, progressWidth,
                 chatRequestChain, chainBase, nPushed, loads, lastProbe,
                 skipped, placeholder, uiChatInfoLabel, failures,
                 turnsSinceReset, startOrder, lastReset, lastEmpty,
                 missedUpdate, lastCall, budget>>

\* send button or Enter key
onGenerate ==
  /\ ~inputDisabled
  /\ nPushed < budget.tasks
  /\ IF requestInProgress THEN UNCHANGED vars
     ELSE Commit(RunChain(pushTask(Cur, "generate", FALSE)))

\* reset button
onReset ==
  /\ ~inputDisabled
  /\ nPushed < budget.tasks
  /\ LET interrupt == requestInProgress   \* engine.interruptGenerate() is called
         s1 == [Cur EXCEPT !.lastReset =
                  [seen |-> TRUE, interrupt |-> interrupt,
                   generating |-> GenerateExecuting(chatRequestChain)]]
     IN Commit(RunChain(pushTask(s1, "reset", interrupt)))

---------------------------------------------------------------------------
(* Outcome of an awaited engine call: it fulfils, or it rejects *)

Outcome(ok) == ok \/ failures < budget.failures

Rejected(s) == [s EXCEPT !.failures = @ + 1]

---------------------------------------------------------------------------
(* Engine events of a model load *)

\* initProgressCallback during CreateMLCEngine
LoadProgress ==
  \E i \in 1..Len(loads), text \in ProgressTexts :
    /\ loads[i].pc = "create"
    /\ LET pct == ProgressPercentage(text)
           s1 == IF pct # "" THEN [Cur EXCEPT !.progressWidth = pct] ELSE Cur
       IN Commit(updateLastMessage(s1, "warning", text, FALSE))

\* CreateMLCEngine settles
LoadCreateDone ==
  \E i \in 1..Len(loads), ok \in BOOLEAN :
    /\ loads[i].pc = "create"
    /\ Outcome(ok)
    /\ IF ok
       THEN Commit([appendMessage(Cur, "info",
                      "Create vector store from product data. Standby...")
                    EXCEPT !.loads[i].pc = "vectorStore"])
       ELSE Commit(CatchLoad(Rejected(Cur), i))

\* MemoryVectorStore.fromDocuments settles
LoadVectorStoreDone ==
  \E i \in 1..Len(loads), ok \in BOOLEAN :
    /\ loads[i].pc = "vectorStore"
    /\ Outcome(ok)
    /\ IF ok
       THEN Commit([updateLastMessage(Cur, "info",
                      " Vector store created. N JSON-documents added to the store.",
                      FALSE)
                    EXCEPT !.loads[i].pc = "probe"])
       ELSE Commit(CatchLoad(Rejected(Cur), i))

\* Promise.all of getMaxStorageBufferBindingSize and getGPUVendor settles
ProbeDone(sizes, vendors) ==
  \E i \in 1..Len(loads), ok \in BOOLEAN, size \in sizes, vendor \in vendors :
    /\ loads[i].pc = "probe"
    /\ Outcome(ok)
    /\ Commit(FinishLoad(IF ok THEN Cur ELSE Rejected(Cur), i, ok, size, vendor))

LoadProbeDone == ProbeDone(FewProbeSizes, FewVendors)

LoadProbeDoneAny == ProbeDone(ProbeSizes, Vendors)

---------------------------------------------------------------------------
(* Engine events of the running tasks *)

\* engine.chat.completions.create settles
GenCreateDone ==
  \E i \in 1..Len(chatRequestChain), ok \in BOOLEAN :
    /\ chatRequestChain[i].pc = "create"
    /\ Outcome(ok)
    /\ LET s1 == [Cur EXCEPT !.chatRequestChain[i].messages = <<>>]
       IN IF ok THEN Commit([s1 EXCEPT !.chatRequestChain[i].pc = "stream"])
          ELSE Commit(CatchGenerate(Rejected(s1), i))

\* updateLastMessage("secondary", text) called by the generate task i
UpdatePlaceholder(s, i, text) ==
  LET own == /\ Matches(s.uiChat, "secondary") # {}
             /\ LastMatch(s.uiChat, "secondary") =
                  s.chatRequestChain[i].placeholderAt
  IN [updateLastMessage(s, "secondary", text, FALSE)
      EXCEPT !.missedUpdate = @ \/ ~own]

\* the body of the for await loop, for the next n chunks of the stream
RECURSIVE TakeChunks(_, _, _)
TakeChunks(s, i, n) ==
  IF n = 0 THEN s
  ELSE LET chunk == Chunks[s.chatRequestChain[i].nChunks + 1]
           curMessage == s.chatRequestChain[i].curMessage \o chunk.delta
           s1 == [s EXCEPT !.chatRequestChain[i].curMessage = curMessage,
                           !.chatRequestChain[i].nChunks = @ + 1,
                           !.chatRequestChain[i].usage = @ \/ chunk.usage]
       IN TakeChunks(UpdatePlaceholder(s1, i, curMessage), i, n - 1)

\* the stream yields its next chunk, or its next chunks when it has several
\* ready in the same turn
GenChunk ==
  \E i \in 1..Len(chatRequestChain) :
    /\ chatRequestChain[i].pc = "stream"
    /\ \E n \in 1..(Len(Chunks) - chatRequestChain[i].nChunks) :
         Commit(TakeChunks(Cur, i, n))

\* the stream ends, or throws
GenStreamDone ==
  \E i \in 1..Len(chatRequestChain), ok \in BOOLEAN :
    /\ chatRequestChain[i].pc = "stream"
    /\ Outcome(ok)
    /\ IF ok
       THEN Commit([Cur EXCEPT !.uiChatInfoLabel =
                                  IF chatRequestChain[i].usage THEN "usage" ELSE @,
                               !.chatRequestChain[i].pc = "getMessage"])
       ELSE Commit(CatchGenerate(Rejected(Cur), i))

\* engine.getMessage settles
GenGetMessageDone ==
  \E i \in 1..Len(chatRequestChain), ok \in BOOLEAN, finalMessage \in FinalMessages :
    /\ chatRequestChain[i].pc = "getMessage"
    /\ Outcome(ok)
    /\ IF ok
       THEN LET s1 == UpdatePlaceholder(Cur, i, finalMessage)
                s2 == pushTurn(s1, "assistant", finalMessage)
            IN Commit(RunChain(FinishGenerate(s2, i)))
       ELSE Commit(CatchGenerate(Rejected(Cur), i))

\* engine.unload settles
GenUnloadDone ==
  \E i \in 1..Len(chatRequestChain), ok \in BOOLEAN :
    /\ chatRequestChain[i].pc = "unload"
    /\ Outcome(ok)
    /\ IF ok THEN Commit(RunChain(FinishGenerate(unloadEngine(Cur), i)))
       ELSE Commit(RunChain(RejectGenerate(Rejected(Cur), i)))

\* engine.resetChat settles
ResetChatDone ==
  \E i \in 1..Len(chatRequestChain), ok \in BOOLEAN :
    /\ chatRequestChain[i].pc = "resetChat"
    /\ Outcome(ok)
    /\ IF ok
       THEN Commit(RunChain([resetChatHistory(Cur)
                             EXCEPT !.chatRequestChain[i].pc = "fulfilled"]))
       ELSE Commit(RunChain([Rejected(Cur) EXCEPT !.chatRequestChain[i].pc = "rejected"]))

---------------------------------------------------------------------------

Next ==
  \/ DownloadClick
  \/ TypeInput
  \/ onGenerate
  \/ onReset
  \/ LoadCreateDone
  \/ LoadVectorStoreDone
  \/ LoadProbeDone
  \/ GenCreateDone
  \/ GenChunk
  \/ GenStreamDone
  \/ GenGetMessageDone
  \/ GenUnloadDone
  \/ ResetChatDone

Spec == Init /\ [][Next]_vars

\* The model load alone, over the full grid of probe results
NextLoad ==
  \/ DownloadClick
  \/ LoadProgress
  \/ LoadCreateDone
  \/ LoadVectorStoreDone
  \/ LoadProbeDoneAny

SpecLoad == Init /\ [][NextLoad]_vars

\* updateLastMessage on its own, over logs of a few blocks
InitUpdate ==
  /\ Constructed
  /\ uiChat \in Logs
  /\ budget = [tasks |-> MaxTasks, failures |-> MaxFailures]

UpdateCall ==
  /\ lastCall.n < MaxCalls
  /\ \E kind \in UpdateKinds, text \in UpdateTexts, keepText \in BOOLEAN :
       Commit([updateLastMessage(Cur, kind, text, keepText)
               EXCEPT !.lastCall = [seen |-> TRUE, n |-> lastCall.n + 1,
                                    kind |-> kind, text |-> text,
                                    keepText |-> keepText, before |-> uiChat]])

NextUpdate == UpdateCall

SpecUpdate == InitUpdate /\ [][NextUpdate]_vars

\* The whole program again, with a longer queue
SpecDeep == InitDeep /\ [][Next]_vars

---------------------------------------------------------------------------
(* Properties *)

ExecutingTasks ==
  {i \in 1..Len(chatRequestChain) : Executing(chatRequestChain[i])}

IsSuffix(a, b) ==
  /\ Len(a) <= Len(b)
  /\ a = SubSeq(b, Len(b) - Len(a) + 1, Len(b))

ReadyEntry == [kind |-> "info", html |-> "<p>Chat assistant is ready</p>"]

\* C1: tasks begin in the order they were pushed, a task body never begins
\* before every promise pushed before it has settled, and at most one task
\* body is executing at any instant.
C1_TasksRunInOrderOneAtATime ==
  /\ Cardinality(ExecutingTasks) <= 1
  /\ \A i \in 1..Len(chatRequestChain) :
       chatRequestChain[i].started =>
         \A j \in 1..(i - 1) : Settled(chatRequestChain[j])
  /\ \A a, b \in 1..Len(startOrder) : a < b => startOrder[a] < startOrder[b]

\* a task body is executing after an earlier one has run, and a later task
\* waits behind it without having begun
C1_Witness ==
  /\ Len(startOrder) >= 2
  /\ \E i, j \in 1..Len(chatRequestChain) :
       /\ i < j
       /\ Executing(chatRequestChain[i])
       /\ chatRequestChain[j].pc = "queued"

\* C2: a task whose promise fails does not abort the tasks pushed after it:
\* no task has its promise settled without its body having been called.
C2_FailedTaskDoesNotAbortLater == skipped = {}

\* C3: every task body contains its own failures: no promise of the chain
\* ever rejects.
C3_NoTaskPromiseRejects ==
  /\ chainBase = "fulfilled"
  /\ \A i \in 1..Len(chatRequestChain) : chatRequestChain[i].pc # "rejected"

\* C4: whenever no generate task is executing, and so after any generate
\* task has completed, the chat history holds at most 4 turns and is a suffix
\* of the turns appended since the last reset.
C4_HistoryWindowAfterGenerate ==
  ~GenerateExecuting(chatRequestChain) =>
    /\ Len(chatHistory) <= 4
    /\ IsSuffix(chatHistory, turnsSinceReset)

\* the only task left in the chain is a reset that was requested while a
\* generation was executing, and this step settles it
ResetAfterGenerateSettles ==
  /\ Len(chatRequestChain) = 1
  /\ chatRequestChain[1].kind = "reset"
  /\ chatRequestChain[1].duringGenerate
  /\ chatRequestChain[1].pc = "resetChat"
  /\ chatRequestChain' = <<>>

\* C5: a reset requested while a generation is executing runs after that
\* generation has ended, and once it has settled the chat history is empty
\* and the message log is one fresh "ready" info entry.
C5_ResetAfterGenerateClears ==
  [][ResetAfterGenerateSettles =>
       (chatHistory' = <<>> /\ uiChat' = <<ReadyEntry>>)]_vars

\* C6: the chain holds at most one generate task that has been pushed and
\* has not finished.
C6_OneOutstandingGenerate ==
  Cardinality({i \in 1..Len(chatRequestChain) :
                 /\ chatRequestChain[i].kind = "generate"
                 /\ ~Settled(chatRequestChain[i])}) <= 1

\* C7: a model load, a generate task and a reset task never execute at the
\* same time.
C7_LoadAndTasksSerialized == Len(loads) + Cardinality(ExecutingTasks) <= 1

\* the generate task with identity id is in its catch clause, awaiting the
\* unload, and this step ends the task
FailedGenerateEnds(id) ==
  /\ \E i \in 1..Len(chatRequestChain) :
       /\ chatRequestChain[i].id = id
       /\ chatRequestChain[i].pc = "unload"
  /\ \A i \in 1..Len(chatRequestChain') :
       chatRequestChain'[i].id = id => Settled(chatRequestChain'[i])

\* C8: when a generate task that met an error ends, a danger message is in
\* the log, chatLoaded is false and the download control is enabled.
C8_FailedGenerateEndsUnloaded ==
  [][\A id \in 1..budget.tasks :
       FailedGenerateEnds(id) =>
         /\ \E k \in 1..Len(uiChat') : uiChat'[k].kind = "danger"
         /\ ~chatLoaded'
         /\ ~downloadDisabled' /\ ~downloadHidden']_vars

\* C9: after a load whose device probe failed, the session is ready and the
\* restriction flag is false.
C9_ProbeFailureLeavesFlagFalse ==
  (lastProbe.pc = "ready" /\ lastProbe.probeFailed) => ~lastProbe.restrictModels

\* C10: after a successful probe the restriction flag is true exactly when
\* the size is at most 128 MiB or the vendor is "qualcomm" or "arm".
C10_RestrictionFlag ==
  (lastProbe.pc = "ready" /\ ~lastProbe.probeFailed) =>
    (lastProbe.restrictModels <=>
       \/ lastProbe.maxStorageBufferBindingSize <= 128 * 1024 * 1024
       \/ lastProbe.gpuVendor \in {"qualcomm", "arm"})

\* a probe that returned exactly 128 MiB and a vendor outside the mobile set
C10_Witness ==
  /\ lastProbe.pc = "ready" /\ ~lastProbe.probeFailed
  /\ lastProbe.maxStorageBufferBindingSize = 134217728
  /\ lastProbe.gpuVendor = "nvidia"
  /\ lastProbe.restrictModels

\* C11: a generate task that finds the input field empty appends nothing to
\* the message log, leaves the chat history as it was, and leaves
\* requestInProgress with the value it had when the task began.
C11_EmptyGenerateChangesNothing ==
  lastEmpty.seen =>
    /\ lastEmpty.logKept
    /\ lastEmpty.historyKept
    /\ lastEmpty.flagAfter = lastEmpty.flagBefore

\* the concatenation of the deltas of the first n chunks of the stream
RECURSIVE Deltas(_)
Deltas(n) == IF n = 0 THEN "" ELSE Deltas(n - 1) \o Chunks[n].delta

\* C12: while a generation reads its stream, its placeholder shows the
\* concatenation of all the deltas received so far, whatever the turns in
\* which the chunks came; and once the generation has pushed the assistant
\* turn, the placeholder shows the finalized message.
C12_ChunksWrittenInOrder ==
  /\ \A i \in 1..Len(chatRequestChain) :
       LET task == chatRequestChain[i]
       IN (task.pc \in {"stream", "getMessage"} /\ task.nChunks >= 1) =>
            /\ task.curMessage = Deltas(task.nChunks)
            /\ task.placeholderAt \in 1..Len(uiChat)
            /\ uiChat[task.placeholderAt].html = Render(Deltas(task.nChunks))
  /\ (chatHistory # <<>> /\ chatHistory[Len(chatHistory)].role = "assistant") =>
       /\ Matches(uiChat, "secondary") # {}
       /\ uiChat[LastMatch(uiChat, "secondary")].html =
            Render(chatHistory[Len(chatHistory)].content)

\* the stream has ended after every chunk was received, and the placeholder
\* shows both deltas
C12_Witness ==
  \E i \in 1..Len(chatRequestChain) :
    /\ chatRequestChain[i].pc = "getMessage"
    /\ chatRequestChain[i].nChunks = Len(Chunks)
    /\ chatRequestChain[i].placeholderAt \in 1..Len(uiChat)
    /\ uiChat[chatRequestChain[i].placeholderAt].html = "<p>xy</p>"

\* C13: a call of updateLastMessage for a kind that has a block changes
\* neither the number of blocks nor any block but the last one of the kind;
\* that block keeps its kind and its content becomes the rendered text, or
\* the prior content followed by the rendered text when keepText is true;
\* when that is the content it already has, the log is left as it is.
C13_UpdateLastMessage ==
  (lastCall.seen /\ Matches(lastCall.before, lastCall.kind) # {}) =>
    LET before == lastCall.before
        i == LastMatch(before, lastCall.kind)
        rendered == Render(lastCall.text)
        content == IF lastCall.keepText THEN before[i].html \o rendered
                   ELSE rendered
    IN /\ Len(uiChat) = Len(before)
       /\ \A j \in 1..Len(before) : j # i => uiChat[j] = before[j]
       /\ uiChat[i] = [kind |-> lastCall.kind, html |-> content]
       /\ content = before[i].html => uiChat = before

\* a call with keepText true on a log with two blocks of the kind: the last
\* one has grown, the first one is as it was
C13_Witness ==
  /\ lastCall.seen /\ lastCall.keepText /\ lastCall.text = "y"
  /\ Len(lastCall.before) = 2
  /\ lastCall.before[1].kind = lastCall.kind
  /\ lastCall.before[2] = [kind |-> lastCall.kind, html |-> "<p>x</p>"]
  /\ uiChat[2].html = "<p>x</p><p>y</p>"
  /\ uiChat[1] = lastCall.before[1]

\* the call i of initChatUI is awaiting the engine or the vector store, and
\* in this step the awaited call rejects and initChatUI returns
LoadThrows(i) ==
  /\ i \in 1..Len(loads)
  /\ loads[i].pc \in {"create", "vectorStore"}
  /\ failures' = failures + 1
  /\ loads' = SubSeq(loads, 1, i - 1) \o SubSeq(loads, i + 1, Len(loads))

\* C14: when model loading throws, a danger message is appended to the log,
\* chatLoaded and requestInProgress are false, and the download control is
\* enabled and shown.
C14_LoadFailureReturnsToUnloaded ==
  [][\A i \in 1..Len(loads) :
       LoadThrows(i) =>
         /\ uiChat' = Append(uiChat, [kind |-> "danger", html |-> Render(ErrText)])
         /\ ~chatLoaded'
         /\ ~requestInProgress'
         /\ ~downloadDisabled' /\ ~downloadHidden']_vars

\* a load has thrown: its danger message is the last of the log, no load is
\* running and the download control can be clicked
C14_Witness ==
  /\ uiChat # <<>>
  /\ uiChat[Len(uiChat)] = [kind |-> "danger", html |-> "<p>Error</p>"]
  /\ loads = <<>>
  /\ ~chatLoaded /\ ~requestInProgress
  /\ ~downloadDisabled /\ ~downloadHidden

\* C15: onReset calls engine.interruptGenerate() exactly when a generate task
\* body is executing at that moment, and a reset task never begins before
\* every task pushed before it has settled.
C15_InterruptOnlyDuringGenerate ==
  /\ lastReset.seen => (lastReset.interrupt <=> lastReset.generating)
  /\ \A i \in 1..Len(chatRequestChain) :
       (chatRequestChain[i].kind = "reset" /\ chatRequestChain[i].started) =>
         \A j \in 1..(i - 1) : Settled(chatRequestChain[j])

\* C16: requestInProgress is true exactly while a call of initChatUI or a
\* generate task body is executing.
C16_FlagTracksLoadOrGenerate ==
  requestInProgress <=>
    (loads # <<>> \/ GenerateExecuting(chatRequestChain))

C18_MessagesSentToEngine ==
  \A i \in 1..Len(chatRequestChain) :
    LET task == chatRequestChain[i]
    IN task.pc = "create" =>
         /\ Len(task.messages) \in 1..4
         /\ task.prompt # ""
         /\ task.messages[Len(task.messages)] =
              [role |-> "user", content |-> task.prompt]

\* a completions.create in flight with 4 turns, after older turns were cut
C18_Witness ==
  \E i \in 1..Len(chatRequestChain) :
    /\ chatRequestChain[i].pc = "create"
    /\ Len(chatRequestChain[i].messages) = 4
    /\ Len(turnsSinceReset) > 4

ResetTaskClears ==
  /\ \E i \in 1..Len(chatRequestChain) : chatRequestChain[i].pc = "resetChat"
  /\ failures' = failures

\* C20: the chat history is emptied only by a reset task; so the messages
\* passed to engine.chat.completions.create are the last turns of all the
\* turns pushed since the last reset task, whatever failures, unloads and
\* reloads came between.
C20_HistoryEmptiedOnlyByReset ==
  /\ [](\A i \in 1..Len(chatRequestChain) :
          chatRequestChain[i].pc = "create" =>
            chatRequestChain[i].messages = SlidingWindow(turnsSinceReset))
  /\ [][(chatHistory # <<>> /\ chatHistory' = <<>>) => ResetTaskClears]_vars

\* the first generation after a failed generation and a reload passes the
\* unanswered user turn and its own
C20_Witness ==
  /\ chatLoaded /\ failures >= 1
  /\ \E i \in 1..Len(chatRequestChain) :
       /\ chatRequestChain[i].pc = "create"
       /\ chatRequestChain[i].messages =
            << [role |-> "user", content |-> "hi"],
               [role |-> "user", content |-> "hi"] >>

====
